---------------------------- MODULE Spec2Model ----------------------------
(***************************************************************************)
(* The LECO Coordinator of ruleco (src/src/bin/coordinator.rs) with the    *)
(* control-protocol frame codec (src/src/control_protocol.rs), the         *)
(* FullName parser (src/src/lib.rs) and the JSON-RPC envelopes             *)
(* (src/src/json.rs).                                                      *)
(*                                                                         *)
(* Representation.  A name frame is a sequence of tokens: the separator    *)
(* Dot (the byte 46) and dot-free chunks of bytes ("com_A", "N1", ...).     *)
(* A header frame is a sequence of bytes.  A content frame is a record:    *)
(* a JSON object is the record of its members, bytes that are no JSON      *)
(* object are a record with the single field raw.  A message is the        *)
(* sequence of its frames, as in Message.frames.                           *)
(***************************************************************************)
EXTENDS Integers, Sequences, FiniteSets, TLC

VARIABLES
    components,   \* Coordinator.components: short name -> [identity, timestamp]
    running,      \* Coordinator.running
    pc,           \* position of routing(): "new", "while", "read", "returned",
                  \* "panicked"
    now,          \* the monotonic clock read by Instant::now(), in seconds
    inb,          \* the delivery handled by the last iteration (NoDelivery if none)
    pre,          \* Coordinator.components at the start of the last iteration
    sent,         \* what the last step wrote to the router: <<[identity, frames]>>
    pinged,       \* names a ping was written to since their timestamp was set
    io,           \* what the router socket answered in the last step: "ok",
                  \* "read_error", "write_error"
    wire,         \* the frames written to the router, in order, each with the
                  \* number of the read it was written for (kept by SpecOrder)
    reads,        \* deliveries read so far (kept by SpecOrder)
    call,         \* the function called last and its arguments (SpecFn)
    ret           \* what that call returned (SpecFn)

vars ==
    <<components, running, pc, now, inb, pre, sent, pinged, io, wire, reads,
      call, ret>>

-----------------------------------------------------------------------------
(* Bounds of the model *)

\* the clock stops advancing here
MaxTime == 40

\* seconds that pass in one step of the clock
TickSteps == {10}

-----------------------------------------------------------------------------
(* Program constants *)

VERSION == 0
CidLen == 16
MidLen == 3
HeaderLen == 20
PingThreshold == 10
EvictionThreshold == 30
U16Max == 65535

Dot == "."
COORDINATOR == <<"COORDINATOR">>

\* Coordinator::new(name, port): namespace and full_name
namespace == <<"N1">>
full_name == namespace \o <<Dot>> \o COORDINATOR

-----------------------------------------------------------------------------
(* core::FullName *)

RECURSIVE split(_)
\* slice::split(|e| *e == 46): the parts between the separators
split(s) ==
    IF \A i \in 1..Len(s) : s[i] # Dot
    THEN <<s>>
    ELSE LET i == CHOOSE j \in 1..Len(s) :
                     s[j] = Dot /\ \A k \in 1..(j-1) : s[k] # Dot
         IN <<SubSeq(s, 1, i-1)>> \o split(SubSeq(s, i+1, Len(s)))

\* from_split that takes the first part for the namespace and the last for
\* the name, however many parts there are
from_split_first_and_last(parts) ==
    IF Len(parts) = 1
    THEN [ok |-> TRUE, namespace |-> <<>>, name |-> parts[1]]
    ELSE [ok |-> TRUE, namespace |-> parts[1], name |-> parts[Len(parts)]]

from_split(parts) ==
    IF Len(parts) = 1
    THEN [ok |-> TRUE, namespace |-> <<>>, name |-> parts[1]]
    ELSE IF Len(parts) = 2
    THEN [ok |-> TRUE, namespace |-> parts[1], name |-> parts[2]]
    ELSE [ok |-> FALSE, namespace |-> <<>>, name |-> <<>>]

from_vec(vec) == from_split(split(vec))

from_slice(slice) == from_split(split(slice))

-----------------------------------------------------------------------------
(* json *)

null == "null"

Request_build(id, method) == [jsonrpc |-> "2.0", id |-> id, method |-> method]

Response_build(id, result) == [jsonrpc |-> "2.0", id |-> id, result |-> result]

ErrorResponse_build(id, code, message) ==
    [jsonrpc |-> "2.0", id |-> id, error |-> [code |-> code, message |-> message]]

\* serde_json::from_slice::<Request>: the members jsonrpc, id (a u16) and
\* method must be there; other members are ignored
parses_as_Request(content) ==
    /\ {"jsonrpc", "id", "method"} \subseteq DOMAIN content
    /\ content.id \in 0..U16Max

is_sign_in(content) ==
    IF parses_as_Request(content) THEN content.method = "sign_in" ELSE FALSE

-----------------------------------------------------------------------------
(* control_protocol::Error *)

\* Error::code with the codes of ParseError and InvalidRequest exchanged
code_parse_invalid_exchanged(error) ==
    CASE error = "InvalidRequest"  -> -32700
      [] error = "MethodNotFound"  -> -32601
      [] error = "InvalidParams"   -> -32602
      [] error = "InternalError"   -> -32603
      [] error = "ParseError"      -> -32600
      [] error = "ServerError"     -> -32000
      [] error = "NotSignedIn"     -> -32090
      [] error = "DuplicateName"   -> -32091
      [] error = "NodeUnknown"     -> -32092
      [] error = "ReceiverUnknown" -> -32093

code(error) ==
    CASE error = "InvalidRequest"  -> -32600
      [] error = "MethodNotFound"  -> -32601
      [] error = "InvalidParams"   -> -32602
      [] error = "InternalError"   -> -32603
      [] error = "ParseError"      -> -32700
      [] error = "ServerError"     -> -32000
      [] error = "NotSignedIn"     -> -32090
      [] error = "DuplicateName"   -> -32091
      [] error = "NodeUnknown"     -> -32092
      [] error = "ReceiverUnknown" -> -32093

message_of(error) ==
    CASE error = "NotSignedIn"     -> "Component not signed in yet!"
      [] error = "DuplicateName"   -> "The name is already taken."
      [] error = "NodeUnknown"     -> "Node is unknown."
      [] error = "ReceiverUnknown" -> "Receiver is not in addresses list."
      [] OTHER                     -> "Server error."

-----------------------------------------------------------------------------
(* control_protocol::Header and control_protocol::Message *)

\* Header::from_frame slices frame[..16], frame[16..19], frame[19]: a frame
\* shorter than 20 bytes panics (ok = FALSE)
Header_from_frame(frame) ==
    IF Len(frame) < HeaderLen
    THEN [ok |-> FALSE, conversation_id |-> <<>>, message_id |-> <<>>,
          message_type |-> 0]
    ELSE [ok |-> TRUE,
          conversation_id |-> SubSeq(frame, 1, CidLen),
          message_id |-> SubSeq(frame, CidLen + 1, CidLen + MidLen),
          message_type |-> frame[HeaderLen]]

\* Message::new: fewer than 4 frames is InvalidInput
Message_new_ok(frames) == Len(frames) >= 4

\* Option<T>
None == <<>>
Some(x) == <<x>>

\* core::ContentTypes
ContentNull == [type |-> "Null"]
ContentFrame(frame) == [type |-> "Frame", frame |-> frame]
ContentFrames(frames) == [type |-> "Frames", frames |-> frames]

\* Message::build as the inline module of lib.rs has it: a Null content
\* becomes one empty payload frame
build_null_as_empty_frame(receiver, sender, conversation_id, message_id, message_type, content, fresh) ==
    <<  <<VERSION>>, receiver, sender,
        (IF conversation_id = None THEN fresh ELSE conversation_id[1])
          \o (IF message_id = None THEN [i \in 1..MidLen |-> 0] ELSE message_id[1])
          \o <<message_type>> >>
    \o (IF content.type = "Frame" THEN <<content.frame>>
        ELSE IF content.type = "Frames" THEN content.frames
        ELSE << <<>> >>)

\* Message::build; fresh is what create_conversation_id() returns when it
\* is called
build(receiver, sender, conversation_id, message_id, message_type, content, fresh) ==
    <<  <<VERSION>>, receiver, sender,
        (IF conversation_id = None THEN fresh ELSE conversation_id[1])
          \o (IF message_id = None THEN [i \in 1..MidLen |-> 0] ELSE message_id[1])
          \o <<message_type>> >>
    \o (IF content.type = "Frame" THEN <<content.frame>>
        ELSE IF content.type = "Frames" THEN content.frames
        ELSE <<>>)

\* Message::build with a conversation id, no message id and one content
\* frame, as the Coordinator calls it
Message_build(receiver, sender, cid, message_type, content) ==
    build(receiver, sender, Some(cid), None, message_type,
          ContentFrame(content), <<>>)

\* Message::to_frames
to_frames(message) == message

\* Message::version
version(message) == IF Len(message[1]) > 0 THEN Some(message[1][1]) ELSE None

\* Message::payload
payload(message) == SubSeq(message, 5, Len(message))

receiver_frame(message) == message[2]
sender_frame(message) == message[3]
receiver(message) == from_vec(message[2])
sender(message) == from_vec(message[3])
header(message) == Header_from_frame(message[4])
has_content_frame(message) == Len(message) >= 5
content_frame(message) == message[5]

-----------------------------------------------------------------------------
(* The component directory (HashMap<Vec<u8>, Component>) *)

NoComponents == [n \in {} |-> 0]

insert(comps, name, component) ==
    [n \in (DOMAIN comps) \cup {name} |-> IF n = name THEN component ELSE comps[n]]

remove(comps, name) == [n \in (DOMAIN comps) \ {name} |-> comps[n]]

\* Component::build
Component_build(identity, t) == [identity |-> identity, timestamp |-> t]

\* Instant::elapsed of an entry's timestamp
elapsed(component, t) == t - component.timestamp

-----------------------------------------------------------------------------
(* Coordinator: the routing of one message.  The operators return the      *)
(* fields of the Coordinator they change next to their result; panic tells *)
(* that the call panicked (an unwrap of None or Err, a slice out of range). *)

is_local(name) == name.namespace = namespace \/ Len(name.namespace) = 0

\* find_routing_information that takes only the own namespace for local
find_routing_information_own_only(comps, receiver_name) ==
    IF receiver_name.namespace = namespace /\ receiver_name.name \in DOMAIN comps
    THEN [ok |-> TRUE, error |-> "", namespace |-> <<>>,
          identity |-> comps[receiver_name.name].identity]
    ELSE [ok |-> FALSE, error |-> "NodeUnknown", namespace |-> <<>>, identity |-> ""]

\* find_routing_information that looks every namespace up in the directory
find_routing_information_any_namespace(comps, receiver_name) ==
    IF receiver_name.name \in DOMAIN comps
    THEN [ok |-> TRUE, error |-> "", namespace |-> <<>>,
          identity |-> comps[receiver_name.name].identity]
    ELSE [ok |-> FALSE, error |-> "ReceiverUnknown", namespace |-> <<>>,
          identity |-> ""]

find_routing_information(comps, receiver_name) ==
    IF is_local(receiver_name)
    THEN IF receiver_name.name \in DOMAIN comps
         THEN [ok |-> TRUE, error |-> "", namespace |-> <<>>,
               identity |-> comps[receiver_name.name].identity]
         ELSE [ok |-> FALSE, error |-> "ReceiverUnknown", namespace |-> <<>>,
               identity |-> ""]
    ELSE [ok |-> FALSE, error |-> "NodeUnknown", namespace |-> <<>>, identity |-> ""]

\* sign_in that inserts nothing
sign_in_forgets(comps, t, identity, sender_name) == comps

sign_in(comps, t, identity, sender_name) ==
    insert(comps, sender_name.name, Component_build(identity, t))

\* sign_out that empties the directory
sign_out_all(comps, sender_name) == NoComponents

sign_out(comps, sender_name) == remove(comps, sender_name.name)

\* shut_down that leaves running as it is
shut_down_keeps_running(run) == run

shut_down(run) == FALSE

\* check_message that lets a sign_in request take over a name that is taken
check_message_sign_in_overwrites(comps, t, identity, message, sender_name, receiver_name) ==
    IF /\ receiver_name.name = COORDINATOR
       /\ has_content_frame(message)
       /\ is_sign_in(content_frame(message))
    THEN [panic |-> FALSE, result |-> "Ok",
          components |-> insert(comps, sender_name.name,
                                Component_build(identity, t))]
    ELSE IF sender_name.name \in DOMAIN comps
    THEN IF comps[sender_name.name].identity = identity
         THEN [panic |-> FALSE, result |-> "Ok",
               components |-> [comps EXCEPT ![sender_name.name].timestamp = t]]
         ELSE [panic |-> FALSE, result |-> "DuplicateName", components |-> comps]
    ELSE IF receiver_name.name = COORDINATOR /\ ~has_content_frame(message)
    THEN [panic |-> TRUE, result |-> "", components |-> comps]
    ELSE [panic |-> FALSE, result |-> "NotSignedIn", components |-> comps]

\* check_message that admits every request to a Coordinator, signed in or not
check_message_admits_requests(comps, t, identity, message, sender_name, receiver_name) ==
    IF sender_name.name \in DOMAIN comps
    THEN IF comps[sender_name.name].identity = identity
         THEN [panic |-> FALSE, result |-> "Ok",
               components |-> [comps EXCEPT ![sender_name.name].timestamp = t]]
         ELSE [panic |-> FALSE, result |-> "DuplicateName", components |-> comps]
    ELSE IF receiver_name.name = COORDINATOR
         THEN IF ~has_content_frame(message)
              THEN [panic |-> TRUE, result |-> "", components |-> comps]
              ELSE IF is_sign_in(content_frame(message))
                   THEN [panic |-> FALSE, result |-> "Ok",
                         components |-> insert(comps, sender_name.name,
                                               Component_build(identity, t))]
                   ELSE [panic |-> FALSE, result |-> "Ok", components |-> comps]
         ELSE [panic |-> FALSE, result |-> "NotSignedIn", components |-> comps]

\* check_message that refreshes the entry of a name before it compares the
\* identity
check_message_touches_holder(comps, t, identity, message, sender_name, receiver_name) ==
    IF sender_name.name \in DOMAIN comps
    THEN IF comps[sender_name.name].identity = identity
         THEN [panic |-> FALSE, result |-> "Ok",
               components |-> [comps EXCEPT ![sender_name.name].timestamp = t]]
         ELSE [panic |-> FALSE, result |-> "DuplicateName",
               components |-> [comps EXCEPT ![sender_name.name].timestamp = t]]
    ELSE IF receiver_name.name = COORDINATOR
         THEN IF ~has_content_frame(message)
              THEN [panic |-> TRUE, result |-> "", components |-> comps]
              ELSE IF is_sign_in(content_frame(message))
                   THEN [panic |-> FALSE, result |-> "Ok",
                         components |-> insert(comps, sender_name.name,
                                               Component_build(identity, t))]
                   ELSE [panic |-> FALSE, result |-> "NotSignedIn",
                         components |-> comps]
         ELSE [panic |-> FALSE, result |-> "NotSignedIn", components |-> comps]

\* check_message that leaves the timestamp of a signed-in sender as it is
check_message_no_refresh(comps, t, identity, message, sender_name, receiver_name) ==
    IF sender_name.name \in DOMAIN comps
    THEN IF comps[sender_name.name].identity = identity
         THEN [panic |-> FALSE, result |-> "Ok", components |-> comps]
         ELSE [panic |-> FALSE, result |-> "DuplicateName", components |-> comps]
    ELSE IF receiver_name.name = COORDINATOR
         THEN IF ~has_content_frame(message)
              THEN [panic |-> TRUE, result |-> "", components |-> comps]
              ELSE IF is_sign_in(content_frame(message))
                   THEN [panic |-> FALSE, result |-> "Ok",
                         components |-> insert(comps, sender_name.name,
                                               Component_build(identity, t))]
                   ELSE [panic |-> FALSE, result |-> "NotSignedIn",
                         components |-> comps]
         ELSE [panic |-> FALSE, result |-> "NotSignedIn", components |-> comps]

\* check_message that takes a sign_in only for a Coordinator of the own or
\* the empty namespace
check_message_own_coordinator_only(comps, t, identity, message, sender_name, receiver_name) ==
    IF sender_name.name \in DOMAIN comps
    THEN IF comps[sender_name.name].identity = identity
         THEN [panic |-> FALSE, result |-> "Ok",
               components |-> [comps EXCEPT ![sender_name.name].timestamp = t]]
         ELSE [panic |-> FALSE, result |-> "DuplicateName", components |-> comps]
    ELSE IF receiver_name.name = COORDINATOR /\ is_local(receiver_name)
         THEN IF ~has_content_frame(message)
              THEN [panic |-> TRUE, result |-> "", components |-> comps]
              ELSE IF is_sign_in(content_frame(message))
                   THEN [panic |-> FALSE, result |-> "Ok",
                         components |-> insert(comps, sender_name.name,
                                               Component_build(identity, t))]
                   ELSE [panic |-> FALSE, result |-> "NotSignedIn",
                         components |-> comps]
         ELSE [panic |-> FALSE, result |-> "NotSignedIn", components |-> comps]

\* result is "Ok" or the Error
check_message(comps, t, identity, message, sender_name, receiver_name) ==
    IF sender_name.name \in DOMAIN comps
    THEN IF comps[sender_name.name].identity = identity
         THEN [panic |-> FALSE, result |-> "Ok",
               components |-> [comps EXCEPT ![sender_name.name].timestamp = t]]
         ELSE [panic |-> FALSE, result |-> "DuplicateName", components |-> comps]
    ELSE IF receiver_name.name = COORDINATOR
         THEN IF ~has_content_frame(message)
              THEN [panic |-> TRUE, result |-> "", components |-> comps]
              ELSE IF is_sign_in(content_frame(message))
                   THEN [panic |-> FALSE, result |-> "Ok",
                         components |-> sign_in(comps, t, identity, sender_name)]
                   ELSE [panic |-> FALSE, result |-> "NotSignedIn",
                         components |-> comps]
         ELSE [panic |-> FALSE, result |-> "NotSignedIn", components |-> comps]

\* create_error that passes no conversation id to Message::build, which
\* then generates one
create_error_fresh_id(receiver_f, error, conversation_id) ==
    build(receiver_f, full_name, None, None, 1,
          ContentFrame(ErrorResponse_build(0, code(error), message_of(error))),
          [i \in 1..CidLen |-> 0])

create_error(receiver_f, error, conversation_id) ==
    Message_build(receiver_f, full_name, conversation_id, 1,
                  ErrorResponse_build(0, code(error), message_of(error)))

\* create_response that does not echo the id of the request
create_response_id_zero(receiver_f, id, conversation_id, result) ==
    Message_build(receiver_f, full_name, conversation_id, 1,
                  Response_build(0, result))

create_response(receiver_f, id, conversation_id, result) ==
    Message_build(receiver_f, full_name, conversation_id, 1,
                  Response_build(id, result))

\* handle_message_content that answers an unknown method with MethodNotFound
handle_message_content_method_not_found(comps, run, message, sender_name) ==
    LET receiver_f == sender_frame(message)
        h == header(message)
        conversation_id == h.conversation_id
        content == content_frame(message)
        method == content.method
    IN  IF ~h.ok
        THEN [panic |-> TRUE, message |-> <<>>, components |-> comps, running |-> run]
        ELSE IF ~has_content_frame(message)
        THEN [panic |-> FALSE, components |-> comps, running |-> run,
              message |-> create_error(receiver_f, "ParseError", conversation_id)]
        ELSE IF ~parses_as_Request(content)
        THEN [panic |-> FALSE, components |-> comps, running |-> run,
              message |-> create_error(receiver_f, "ParseError", conversation_id)]
        ELSE IF method = "sign_in" \/ method = "pong"
        THEN [panic |-> FALSE, components |-> comps, running |-> run,
              message |-> create_response(receiver_f, content.id, conversation_id, null)]
        ELSE IF method = "sign_out"
        THEN [panic |-> FALSE, components |-> sign_out(comps, sender_name),
              running |-> run,
              message |-> create_response(receiver_f, content.id, conversation_id, null)]
        ELSE IF method = "shut_down"
        THEN [panic |-> FALSE, components |-> comps, running |-> shut_down(run),
              message |-> create_response(receiver_f, content.id, conversation_id, null)]
        ELSE [panic |-> FALSE, components |-> comps, running |-> run,
              message |-> create_error(receiver_f, "MethodNotFound", conversation_id)]

\* handle_message_content whose error for an unknown method echoes the id
\* of the request
handle_message_content_error_echoes_id(comps, run, message, sender_name) ==
    LET receiver_f == sender_frame(message)
        h == header(message)
        conversation_id == h.conversation_id
        content == content_frame(message)
        method == content.method
    IN  IF ~h.ok
        THEN [panic |-> TRUE, message |-> <<>>, components |-> comps, running |-> run]
        ELSE IF ~has_content_frame(message)
        THEN [panic |-> FALSE, components |-> comps, running |-> run,
              message |-> create_error(receiver_f, "ParseError", conversation_id)]
        ELSE IF ~parses_as_Request(content)
        THEN [panic |-> FALSE, components |-> comps, running |-> run,
              message |-> create_error(receiver_f, "ParseError", conversation_id)]
        ELSE IF method = "sign_in" \/ method = "pong"
        THEN [panic |-> FALSE, components |-> comps, running |-> run,
              message |-> create_response(receiver_f, content.id, conversation_id, null)]
        ELSE IF method = "sign_out"
        THEN [panic |-> FALSE, components |-> sign_out(comps, sender_name),
              running |-> run,
              message |-> create_response(receiver_f, content.id, conversation_id, null)]
        ELSE IF method = "shut_down"
        THEN [panic |-> FALSE, components |-> comps, running |-> shut_down(run),
              message |-> create_response(receiver_f, content.id, conversation_id, null)]
        ELSE [panic |-> FALSE, components |-> comps, running |-> run,
              message |-> Message_build(receiver_f, full_name, conversation_id, 1,
                  ErrorResponse_build(content.id, code("InvalidRequest"),
                                      message_of("InvalidRequest")))]


handle_message_content(comps, run, message, sender_name) ==
    LET receiver_f == sender_frame(message)
        h == header(message)
        conversation_id == h.conversation_id
        content == content_frame(message)
        method == content.method
    IN  IF ~h.ok
        THEN [panic |-> TRUE, message |-> <<>>, components |-> comps, running |-> run]
        ELSE IF ~has_content_frame(message)
        THEN [panic |-> FALSE, components |-> comps, running |-> run,
              message |-> create_error(receiver_f, "ParseError", conversation_id)]
        ELSE IF ~parses_as_Request(content)
        THEN [panic |-> FALSE, components |-> comps, running |-> run,
              message |-> create_error(receiver_f, "ParseError", conversation_id)]
        ELSE IF method = "sign_in" \/ method = "pong"
        THEN [panic |-> FALSE, components |-> comps, running |-> run,
              message |-> create_response(receiver_f, content.id, conversation_id, null)]
        ELSE IF method = "sign_out"
        THEN [panic |-> FALSE, components |-> sign_out(comps, sender_name),
              running |-> run,
              message |-> create_response(receiver_f, content.id, conversation_id, null)]
        ELSE IF method = "shut_down"
        THEN [panic |-> FALSE, components |-> comps, running |-> shut_down(run),
              message |-> create_response(receiver_f, content.id, conversation_id, null)]
        ELSE [panic |-> FALSE, components |-> comps, running |-> run,
              message |-> create_error(receiver_f, "InvalidRequest", conversation_id)]

\* a SendingContainer
SendingContainer(ns, identity, message) ==
    [receiving_namespace |-> ns, identity |-> identity, message |-> message]

Panicked(comps, run) ==
    [panic |-> TRUE, components |-> comps, running |-> run, out |-> <<>>]

\* the match of route_message with the error addressed to the sender frame
\* of the message that could not be routed
resolve_error_to_sender(comps, run, message, receiver_name) ==
    LET r == find_routing_information(comps, receiver_name) IN
    IF r.ok
    THEN [panic |-> FALSE, components |-> comps, running |-> run,
          out |-> <<SendingContainer(r.namespace, r.identity, message)>>]
    ELSE IF ~header(message).ok
    THEN Panicked(comps, run)
    ELSE LET error_message == create_error(sender_frame(message), r.error,
                                           header(message).conversation_id)
             r2 == find_routing_information(comps, receiver(error_message))
         IN  IF r2.ok
             THEN [panic |-> FALSE, components |-> comps, running |-> run,
                   out |-> <<SendingContainer(r2.namespace, r2.identity,
                                              error_message)>>]
             ELSE [panic |-> FALSE, components |-> comps, running |-> run,
                   out |-> <<>>]

\* the match on find_routing_information in route_message (lines 151-173)
resolve(comps, run, message, receiver_name) ==
    LET r == find_routing_information(comps, receiver_name) IN
    IF r.ok
    THEN [panic |-> FALSE, components |-> comps, running |-> run,
          out |-> <<SendingContainer(r.namespace, r.identity, message)>>]
    ELSE IF ~header(message).ok
    THEN Panicked(comps, run)
    ELSE LET error_message == create_error(receiver_frame(message), r.error,
                                           header(message).conversation_id)
             r2 == find_routing_information(comps, receiver(error_message))
         IN  IF r2.ok
             THEN [panic |-> FALSE, components |-> comps, running |-> run,
                   out |-> <<SendingContainer(r2.namespace, r2.identity,
                                              error_message)>>]
             ELSE [panic |-> FALSE, components |-> comps, running |-> run,
                   out |-> <<>>]

\* route_message that routes the authorization error by the sender's name
route_message_error_by_name(comps, run, t, identity, message) ==
    LET sender_name == sender(message)
        receiver_name == receiver(message)
    IN
    IF ~sender_name.ok \/ ~receiver_name.ok
    THEN Panicked(comps, run)
    ELSE
    LET valid == check_message(comps, t, identity, message, sender_name,
                               receiver_name)
    IN
    IF valid.panic
    THEN Panicked(valid.components, run)
    ELSE IF valid.result # "Ok"
    THEN IF ~header(message).ok
         THEN Panicked(valid.components, run)
         ELSE resolve(valid.components, run,
                      create_error(sender_frame(message), valid.result,
                                   header(message).conversation_id),
                      sender_name)
    ELSE IF receiver_name.name = COORDINATOR /\ is_local(receiver_name)
    THEN LET handled == handle_message_content(valid.components, run, message,
                                               sender_name)
         IN  IF handled.panic
             THEN Panicked(handled.components, handled.running)
             ELSE resolve(handled.components, handled.running, handled.message,
                          receiver(handled.message))
    ELSE resolve(valid.components, run, message, receiver_name)

\* out is the returned Option<SendingContainer>: <<>> for None
route_message(comps, run, t, identity, message) ==
    LET sender_name == sender(message)
        receiver_name == receiver(message)
    IN
    IF ~sender_name.ok \/ ~receiver_name.ok
    THEN Panicked(comps, run)
    ELSE
    LET valid == check_message(comps, t, identity, message, sender_name,
                               receiver_name)
    IN
    IF valid.panic
    THEN Panicked(valid.components, run)
    ELSE IF valid.result # "Ok"
    THEN IF ~header(message).ok
         THEN Panicked(valid.components, run)
         ELSE [panic |-> FALSE, components |-> valid.components, running |-> run,
               out |-> <<SendingContainer(<<>>, identity,
                            create_error(sender_frame(message), valid.result,
                                         header(message).conversation_id))>>]
    ELSE IF receiver_name.name = COORDINATOR /\ is_local(receiver_name)
    THEN LET handled == handle_message_content(valid.components, run, message,
                                               sender_name)
         IN  IF handled.panic
             THEN Panicked(handled.components, handled.running)
             ELSE resolve(handled.components, handled.running, handled.message,
                          receiver(handled.message))
    ELSE resolve(valid.components, run, message, receiver_name)

\* send_routed_message / send_local_message: the identity frame, then the frames
send_routed_message(out) ==
    IF Len(out) = 1 /\ Len(out[1].receiving_namespace) = 0
    THEN <<[identity |-> out[1].identity, frames |-> out[1].message]>>
    ELSE <<>>

-----------------------------------------------------------------------------
(* Coordinator: the timeout scan *)

\* core::create_conversation_id: a UUIDv7, its leading bytes the time of the
\* call, its trailing bytes random
create_conversation_id(t, random) ==
    <<t>> \o [i \in 1..(CidLen - 2) |-> 0] \o <<random>>

\* the message send_local_ping writes for the entry name
ping_message(name, cid) ==
    Message_build(name, full_name, cid, 1, Request_build(0, "pong"))

\* check_timeouts that pings only after more than the ping threshold
to_ping_later(comps, t) ==
    {n \in DOMAIN comps : elapsed(comps[n], t) > PingThreshold}

\* the entries check_timeouts pings
to_ping(comps, t) ==
    {n \in DOMAIN comps : elapsed(comps[n], t) >= PingThreshold}

\* the entries check_timeouts retains
retained(comps, t) ==
    {n \in DOMAIN comps : elapsed(comps[n], t) <= EvictionThreshold}

check_timeouts(comps, t) == [n \in retained(comps, t) |-> comps[n]]

-----------------------------------------------------------------------------
(* What the router delivers *)

Identities == {"id_A", "id_B"}

SenderFrames ==
    { <<"com_A">>, <<"N1", Dot, "com_A">>, <<"NX", Dot, "com_A">>,
      <<"com_B">>, <<"N1", Dot, "com_B">> }

ReceiverFrames ==
    { <<"com_A">>, <<"com_B">>, <<"N1", Dot, "com_B">>, <<"NX", Dot, "com_B">>,
      COORDINATOR, <<"N1", Dot, "COORDINATOR">>, <<"NX", Dot, "COORDINATOR">> }

\* name frames with two separators
BadNameFrames == { <<"N1", Dot, "com_A", Dot, "x">> }

\* a header frame of len bytes that starts with the conversation id c
HeaderFrame(c, len) ==
    [i \in 1..len |-> IF i <= CidLen THEN c ELSE IF i = HeaderLen THEN 1 ELSE 0]

\* other header frames: one byte longer, one byte shorter
OtherHeaders == { HeaderFrame(2, HeaderLen + 1), HeaderFrame(3, HeaderLen - 1) }

Methods == {"sign_in", "sign_out", "pong", "shut_down", "steal"}

garbage == [raw |-> "garbage"]

\* the content frames of a delivery
Payloads ==
    { <<Request_build(7, m)>> : m \in Methods }
    \cup { <<>>, <<garbage>>, <<Request_build(0, "sign_in")>>,
           <<Request_build(U16Max + 1, "shut_down")>>,
           <<Request_build(7, "pong"), garbage>> }

FewPayloads ==
    { <<>>, <<garbage>>, <<Request_build(7, "sign_in")>>,
      <<Request_build(7, "shut_down")>> }

Delivery(i, r, s, h, p) ==
    [identity |-> i, frames |-> << <<VERSION>>, r, s, h >> \o p]

\* every name and payload under a 20-byte header; the other headers and the
\* names with two separators on fewer messages; a delivery of three frames
Deliveries ==
    { Delivery(i, r, s, HeaderFrame(1, HeaderLen), p) :
        i \in Identities, r \in ReceiverFrames, s \in SenderFrames, p \in Payloads }
    \cup
    { Delivery(i, r, s, h, p) :
        i \in Identities,
        r \in {<<"com_B">>, <<"NX", Dot, "com_B">>, COORDINATOR},
        s \in {<<"com_A">>, <<"NX", Dot, "com_A">>},
        h \in OtherHeaders, p \in FewPayloads }
    \cup
    { Delivery(i, r, s, HeaderFrame(1, HeaderLen), p) :
        i \in Identities, r \in BadNameFrames, s \in {<<"com_A">>},
        p \in FewPayloads }
    \cup
    { Delivery(i, r, s, HeaderFrame(1, HeaderLen), p) :
        i \in Identities, r \in {<<"com_B">>, COORDINATOR}, s \in BadNameFrames,
        p \in FewPayloads }
    \cup
    { [identity |-> i, frames |-> << <<VERSION>>, COORDINATOR, <<"com_A">> >>] :
        i \in Identities }

NoDelivery == [identity |-> "", frames |-> <<>>]

NoCall == [fn |-> "none"]

-----------------------------------------------------------------------------
(* The state machine *)

Init ==
    /\ components = NoComponents
    /\ running = FALSE
    /\ pc = "new"
    /\ now = 0
    /\ inb = NoDelivery
    /\ pre = NoComponents
    /\ sent = <<>>
    /\ pinged = {}
    /\ io = "ok"
    /\ wire = <<>>
    /\ reads = 0
    /\ call = NoCall
    /\ ret = NoCall

\* the entries whose timestamp the step left alone
untouched(comps, comps2) ==
    {n \in (DOMAIN comps) \cap (DOMAIN comps2) :
        comps2[n].timestamp = comps[n].timestamp}

\* routing(), line 91
Start ==
    /\ pc = "new"
    /\ running' = TRUE
    /\ pc' = "while"
    /\ UNCHANGED <<components, now, inb, pre, sent, pinged, io, wire, reads, call, ret>>

\* routing(), line 92: running holds, loop_element() is entered and blocks
\* in read_message
Loop ==
    /\ pc = "while" /\ running
    /\ pc' = "read"
    /\ inb' = NoDelivery
    /\ pre' = components
    /\ sent' = <<>>
    /\ io' = "ok"
    /\ UNCHANGED <<components, running, now, pinged, wire, reads, call, ret>>

\* a loop_element() that ends the loop when read_message returns an error
ReadErrorStops ==
    /\ pc = "read"
    /\ pc' = "while"
    /\ io' = "read_error"
    /\ running' = FALSE
    /\ UNCHANGED <<components, now, inb, pre, sent, pinged, wire, reads, call, ret>>

\* loop_element() when read_message returns an error of the transport
ReadError ==
    /\ pc = "read"
    /\ pc' = "while"
    /\ io' = "read_error"
    /\ UNCHANGED <<components, running, now, inb, pre, sent, pinged, wire, reads, call, ret>>

\* loop_element() on the delivery d while every write succeeds:
\* read_message, route_message, send_routed_message
Iteration(d) ==
    /\ pc = "read"
    /\ io' = "ok"
    /\ inb' = d
    /\ pre' = components
    /\ IF ~Message_new_ok(d.frames)
       THEN /\ pc' = "while"
            /\ UNCHANGED <<components, running, now, sent, pinged>>
       ELSE LET r == route_message(components, running, now, d.identity, d.frames)
            IN  /\ components' = r.components
                /\ running' = r.running
                /\ pc' = IF r.panic THEN "panicked" ELSE "while"
                /\ sent' = IF r.panic THEN <<>> ELSE send_routed_message(r.out)
                /\ pinged' = pinged \cap untouched(components, r.components)
                /\ UNCHANGED now

LoopElement(d) ==
    /\ Iteration(d)
    /\ UNCHANGED <<wire, reads, call, ret>>

\* routing(), lines 92 and 96: running is false, the loop ends and
\* check_timeouts runs once, pinging in the order the HashMap iterates
Scan ==
    /\ pc = "while" /\ ~running
    /\ io' = "ok"
    /\ LET names == to_ping(components, now)
       IN  \E order \in [1..Cardinality(names) -> names] :
           \E random \in [names -> {0, 1}] :
              /\ \A i, j \in DOMAIN order : order[i] = order[j] => i = j
              /\ sent' = [i \in DOMAIN order |->
                            [identity |-> components[order[i]].identity,
                             frames |-> ping_message(order[i],
                                 create_conversation_id(now, random[order[i]]))]]
              /\ pinged' = pinged \cup names
    /\ components' = check_timeouts(components, now)
    /\ pc' = "returned"
    /\ inb' = NoDelivery
    /\ pre' = components
    /\ UNCHANGED <<running, now>>

Exit ==
    /\ Scan
    /\ UNCHANGED <<wire, reads, call, ret>>

\* time passes while the Coordinator waits (before routing() is called, or
\* blocked in read_message)
Tick ==
    /\ pc \in {"new", "read"}
    /\ \E d \in TickSteps :
        /\ now + d <= MaxTime
        /\ now' = now + d
    /\ UNCHANGED <<components, running, pc, inb, pre, sent, pinged, io, wire, reads, call, ret>>

Next ==
    \/ Start
    \/ Loop
    \/ ReadError
    \/ \E d \in Deliveries : LoopElement(d)
    \/ Exit
    \/ Tick

Spec == Init /\ [][Next]_vars

-----------------------------------------------------------------------------
(* The same loop on a router whose writes can fail: send_local_message     *)
(* unwraps the result of each of its two sends, so a failed send panics.   *)

\* loop_element() on the delivery d when a send of send_local_message fails
LoopElementWriteError(d) ==
    /\ pc = "read"
    /\ Message_new_ok(d.frames)
    /\ LET r == route_message(components, running, now, d.identity, d.frames)
       IN  /\ ~r.panic
           /\ send_routed_message(r.out) # <<>>
           /\ components' = r.components
           /\ running' = r.running
           /\ pinged' = pinged \cap untouched(components, r.components)
    /\ pc' = "panicked"
    /\ io' = "write_error"
    /\ inb' = d
    /\ pre' = components
    /\ sent' = <<>>
    /\ UNCHANGED <<now, wire, reads, call, ret>>

\* the final check_timeouts when the send of a ping fails: the pings before
\* it are written, retain is not reached
ExitWriteError ==
    /\ pc = "while" /\ ~running
    /\ LET names == to_ping(components, now)
       IN  \E order \in [1..Cardinality(names) -> names] :
           \E written \in 0..(Cardinality(names) - 1) :
              /\ \A i, j \in DOMAIN order : order[i] = order[j] => i = j
              /\ sent' = [i \in 1..written |->
                            [identity |-> components[order[i]].identity,
                             frames |-> ping_message(order[i],
                                 create_conversation_id(now, 0))]]
              /\ pinged' = pinged \cup {order[i] : i \in 1..written}
    /\ pc' = "panicked"
    /\ io' = "write_error"
    /\ inb' = NoDelivery
    /\ pre' = components
    /\ UNCHANGED <<components, running, now, wire, reads, call, ret>>

NextIO ==
    \/ Next
    \/ \E d \in Deliveries : LoopElementWriteError(d)
    \/ ExitWriteError

SpecIO == Init /\ [][NextIO]_vars

-----------------------------------------------------------------------------
(* The same loop with the router's outbound side written down: wire grows  *)
(* by the frames of every write, reads counts the deliveries.              *)

MaxReads == 3

\* send_local_message that writes the message frames before the identity
send_local_message_frames_first(read, outs) ==
    [i \in 1..(2 * Len(outs)) |->
        IF i % 2 = 0
        THEN [read |-> read, part |-> "identity",
              identity |-> outs[i \div 2].identity, frames |-> <<>>]
        ELSE [read |-> read, part |-> "message",
              identity |-> outs[(i + 1) \div 2].identity,
              frames |-> outs[(i + 1) \div 2].frames]]

\* what send_local_message puts on the wire for each of outs: the identity
\* frame with SNDMORE, then the frames of the message
send_local_message(read, outs) ==
    [i \in 1..(2 * Len(outs)) |->
        IF i % 2 = 1
        THEN [read |-> read, part |-> "identity",
              identity |-> outs[(i + 1) \div 2].identity, frames |-> <<>>]
        ELSE [read |-> read, part |-> "message",
              identity |-> outs[i \div 2].identity,
              frames |-> outs[i \div 2].frames]]

\* deliveries of two peers: sign_in, pong, shut_down and garbage, to the
\* Coordinator and to com_B, under the own name and under com_A
OrderDeliveries ==
    { Delivery(x[1], r, x[2], HeaderFrame(1, HeaderLen), p) :
        x \in { <<"id_A", <<"com_A">> >>, <<"id_B", <<"com_B">> >>,
                <<"id_B", <<"com_A">> >> },
        r \in { <<"com_B">>, COORDINATOR },
        p \in { <<Request_build(7, "sign_in")>>, <<Request_build(7, "pong")>>,
                <<Request_build(7, "shut_down")>>, <<garbage>> } }

LoopElementLogged(d) ==
    /\ reads < MaxReads
    /\ Iteration(d)
    /\ reads' = reads + 1
    /\ wire' = wire \o send_local_message(reads + 1, sent')
    /\ UNCHANGED <<call, ret>>

\* the pings of the final scan are written for no read
ExitLogged ==
    /\ Scan
    /\ wire' = wire \o send_local_message(0, sent')
    /\ UNCHANGED <<reads, call, ret>>

NextOrder ==
    \/ Start
    \/ Loop
    \/ ReadError
    \/ \E d \in OrderDeliveries : LoopElementLogged(d)
    \/ ExitLogged
    \/ Tick

SpecOrder == Init /\ [][NextOrder]_vars

-----------------------------------------------------------------------------
(* The functions of the library and of the Coordinator called on their     *)
(* own: a behaviour calls one of them once, on arguments of a bounded set, *)
(* and keeps the call and what it returned.                                *)

\* the directories over the names com_A and com_B and the two identities
Directories ==
    UNION { [names -> {Component_build(i, 0) : i \in Identities}] :
              names \in SUBSET { <<"com_A">>, <<"com_B">> } }

\* parsed names: no, the own and a foreign namespace; names in and out of
\* the directories
FullNames ==
    { [ok |-> TRUE, namespace |-> ns, name |-> n] :
        ns \in { <<>>, namespace, <<"NX">> },
        n \in { <<"com_A">>, <<"com_B">>, <<"com_C">> } }

InitFn ==
    /\ components \in Directories
    /\ running = FALSE
    /\ pc = "new"
    /\ now = 0
    /\ inb = NoDelivery
    /\ pre = NoComponents
    /\ sent = <<>>
    /\ pinged = {}
    /\ io = "ok"
    /\ wire = <<>>
    /\ reads = 0
    /\ call = NoCall
    /\ ret = NoCall

\* find_routing_information(&self, receiver): the directory is borrowed
\* immutably
Call_find_routing_information ==
    /\ call = NoCall
    /\ \E receiver_name \in FullNames :
          /\ call' = [fn |-> "find_routing_information", comps |-> components,
                      receiver |-> receiver_name]
          /\ ret' = find_routing_information(components, receiver_name)
    /\ UNCHANGED <<components, running, pc, now, inb, pre, sent, pinged, io,
                   wire, reads>>

\* the arguments of Message::build
BuildNames == { <<"com_B">>, <<"N1", Dot, "com_B">>, full_name }
BuildCids == { None, Some([i \in 1..CidLen |-> 1]), Some([i \in 1..CidLen |-> 255]) }
BuildMids == { None, Some(<<1, 2, 3>>) }
BuildTypes == { 0, 1, 255 }
BuildContents ==
    { ContentNull, ContentFrame(garbage), ContentFrame(Request_build(7, "pong")),
      ContentFrames(<<>>), ContentFrames(<<Request_build(7, "pong"), garbage>>) }

\* Message::new(Message::build(..).to_frames())
Call_build ==
    /\ call = NoCall
    /\ \E r \in BuildNames, s \in BuildNames, cid \in BuildCids,
          mid \in BuildMids, t \in BuildTypes, c \in BuildContents,
          fresh \in { create_conversation_id(now, 0),
                      create_conversation_id(now, 1) } :
          /\ call' = [fn |-> "build", receiver |-> r, sender |-> s,
                      conversation_id |-> cid, message_id |-> mid,
                      message_type |-> t, content |-> c]
          /\ ret' = LET frames == to_frames(build(r, s, cid, mid, t, c, fresh))
                    IN  [ok |-> Message_new_ok(frames), frames |-> frames]
    /\ UNCHANGED <<components, running, pc, now, inb, pre, sent, pinged, io,
                   wire, reads>>

\* control_protocol::Error
Errors ==
    { "InvalidRequest", "MethodNotFound", "InvalidParams", "InternalError",
      "ParseError", "ServerError", "NotSignedIn", "DuplicateName",
      "NodeUnknown", "ReceiverUnknown" }

\* create_error(receiver, error, conversation_id)
Call_create_error ==
    /\ call = NoCall
    /\ \E receiver_f \in BuildNames, error \in Errors,
          cid \in { [i \in 1..CidLen |-> 1], [i \in 1..CidLen |-> 255] } :
          /\ call' = [fn |-> "create_error", receiver |-> receiver_f,
                      error |-> error, conversation_id |-> cid]
          /\ ret' = create_error(receiver_f, error, cid)
    /\ UNCHANGED <<components, running, pc, now, inb, pre, sent, pinged, io,
                   wire, reads>>

MaxNameLen == 4

\* byte strings over two bytes and the separator, up to MaxNameLen long
NameInputs ==
    UNION { [1..n -> {"a", "b", Dot}] : n \in 0..MaxNameLen }

\* FullName::from_vec and FullName::from_slice
Call_from_vec ==
    /\ call = NoCall
    /\ \E input \in NameInputs :
          /\ call' = [fn |-> "from_vec", input |-> input]
          /\ ret' = [vec |-> from_vec(input), slice |-> from_slice(input)]
    /\ UNCHANGED <<components, running, pc, now, inb, pre, sent, pinged, io,
                   wire, reads>>

NextFn ==
    \/ Call_find_routing_information
    \/ Call_build
    \/ Call_create_error
    \/ Call_from_vec

SpecFn == InitFn /\ [][NextFn]_vars

-----------------------------------------------------------------------------
(* Vocabulary of the properties.  After an iteration of the loop inb is    *)
(* the delivery it handled, pre the directory it started from and sent     *)
(* what it wrote to the router.                                            *)

\* the last step was an iteration on a delivery that Message::new accepted
Iterated ==
    /\ pc \in {"while", "panicked"}
    /\ inb # NoDelivery
    /\ Message_new_ok(inb.frames)

InSender == sender(inb.frames)
InReceiver == receiver(inb.frames)

\* both name frames hold at most one separator
NamesParse == InSender.ok /\ InReceiver.ok

\* a message of the control protocol: names that parse and a header that
\* holds the 20 bytes of its layout
WellFormed == NamesParse /\ header(inb.frames).ok

\* the sender's short name is in the directory under the delivery's identity
SignedIn ==
    /\ InSender.name \in DOMAIN pre
    /\ pre[InSender.name].identity = inb.identity

\* the receiver is this Coordinator
ToCoordinator == InReceiver.name = COORDINATOR /\ is_local(InReceiver)

\* the first content frame is a Request with the method m
IsRequest(m) ==
    /\ has_content_frame(inb.frames)
    /\ parses_as_Request(content_frame(inb.frames))
    /\ content_frame(inb.frames).method = m

\* exactly one message was written, to the identity i, with the content c
SentOne(i, c) ==
    /\ Len(sent) = 1
    /\ sent[1].identity = i
    /\ has_content_frame(sent[1].frames)
    /\ content_frame(sent[1].frames) = c

ErrorContent(error) == ErrorResponse_build(0, code(error), message_of(error))

-----------------------------------------------------------------------------
(* C1.  Resolution failure reply: when a message of a signed-in sender is   *)
(* not directed at this Coordinator and its receiver cannot be resolved,   *)
(* exactly one message goes to the sender's identity, an ErrorResponse     *)
(* with code -32093 (ReceiverUnknown) when the receiver's namespace is     *)
(* local or empty and its short name is not in the directory, and with     *)
(* code -32092 (NodeUnknown) when the namespace is a foreign one.          *)
C1_ResolutionFailureReply ==
    (/\ Iterated /\ WellFormed /\ SignedIn /\ ~ToCoordinator
     /\ ~find_routing_information(pre, InReceiver).ok)
    => /\ pc = "while"
       /\ SentOne(inb.identity,
                  ErrorContent(IF is_local(InReceiver) THEN "ReceiverUnknown"
                               ELSE "NodeUnknown"))
       /\ code(IF is_local(InReceiver) THEN "ReceiverUnknown" ELSE "NodeUnknown")
            = (IF is_local(InReceiver) THEN -32093 ELSE -32092)

-----------------------------------------------------------------------------
(* C2.  sign_out: when a signed-in component sends a sign_out request to   *)
(* COORDINATOR (own or empty namespace), the iteration removes its entry   *)
(* from the directory and sends a Response with null result and the        *)
(* request's id to the component's identity.                               *)
C2_SignOutReply ==
    (Iterated /\ WellFormed /\ SignedIn /\ ToCoordinator /\ IsRequest("sign_out"))
    => /\ pc = "while"
       /\ InSender.name \notin DOMAIN components
       /\ SentOne(inb.identity,
                  Response_build(content_frame(inb.frames).id, null))

-----------------------------------------------------------------------------
\* the case of C3: a sign_in request of an unknown short name, sent from the
\* own or the empty namespace to this Coordinator
C3_SignInCase ==
    /\ Iterated /\ WellFormed
    /\ InSender.name \notin DOMAIN pre
    /\ is_local(InSender)
    /\ ToCoordinator
    /\ IsRequest("sign_in")

(* C3.  Sign-in: when the sender's short name N has no directory entry,    *)
(* the sender frame is in the own or the empty namespace, the receiver is  *)
(* COORDINATOR (own or empty namespace) and the first content frame is a   *)
(* sign_in Request, the iteration ends with N -> I in the directory and    *)
(* exactly one message sent, to I, a Response with result null.            *)
C3_SignIn ==
    C3_SignInCase
    => /\ pc = "while"
       /\ InSender.name \in DOMAIN components
       /\ components[InSender.name].identity = inb.identity
       /\ SentOne(inb.identity,
                  Response_build(content_frame(inb.frames).id, null))

C3_Witness ==
    /\ C3_SignInCase
    /\ pre = NoComponents
    /\ inb.frames[3] = <<"N1", Dot, "com_A">>
    /\ DOMAIN components = {<<"com_A">>}
    /\ SentOne("id_A", Response_build(0, null))

-----------------------------------------------------------------------------
\* the case of C4: signed-in sender, receiver in the directory
C4_ForwardCase ==
    /\ Iterated /\ NamesParse /\ SignedIn
    /\ InReceiver.name # COORDINATOR
    /\ is_local(InReceiver)
    /\ InReceiver.name \in DOMAIN pre

(* C4.  Local forward: when the directory holds the sender's short name    *)
(* under the delivery's identity and the receiver's short name R (not      *)
(* COORDINATOR, namespace local or empty) under I_r, exactly one message   *)
(* is written, to I_r, and its frames are those of the inbound message.    *)
C4_LocalForward ==
    C4_ForwardCase
    => /\ pc = "while"
       /\ Len(sent) = 1
       /\ sent[1].identity = pre[InReceiver.name].identity
       /\ sent[1].frames = inb.frames

C4_Witness ==
    /\ C4_ForwardCase
    /\ inb.identity = "id_A"
    /\ InSender.name = <<"com_A">>
    /\ InReceiver.name = <<"com_B">>
    /\ sent = <<[identity |-> "id_B", frames |-> inb.frames]>>

-----------------------------------------------------------------------------
(* C5.  Unsigned-in sender: when the sender's short name has no directory  *)
(* entry and the message is not (receiver short name COORDINATOR and first *)
(* content frame a sign_in Request), authorization fails with NotSignedIn: *)
(* exactly one message is sent, to the delivery's identity, an             *)
(* ErrorResponse with code -32090.                                         *)
C5_NotSignedIn ==
    (/\ Iterated /\ WellFormed
     /\ InSender.name \notin DOMAIN pre
     /\ ~(InReceiver.name = COORDINATOR /\ IsRequest("sign_in")))
    => /\ pc = "while"
       /\ SentOne(inb.identity, ErrorContent("NotSignedIn"))
       /\ code("NotSignedIn") = -32090

-----------------------------------------------------------------------------
\* the case of C6: the sender's short name is held by another identity
C6_DuplicateCase ==
    /\ Iterated /\ WellFormed
    /\ InSender.name \in DOMAIN pre
    /\ pre[InSender.name].identity # inb.identity

(* C6.  Duplicate name: when the sender's short name N is in the directory *)
(* under another identity J, whatever the message is (a sign_in request    *)
(* too), authorization fails with DuplicateName: the entry N -> J stays    *)
(* as it is and exactly one message is sent, to the delivery's own         *)
(* identity, an ErrorResponse with code -32091.                            *)
C6_DuplicateName ==
    C6_DuplicateCase
    => /\ pc = "while"
       /\ InSender.name \in DOMAIN components
       /\ components[InSender.name] = pre[InSender.name]
       /\ SentOne(inb.identity, ErrorContent("DuplicateName"))
       /\ content_frame(sent[1].frames).error.code = -32091

C6_Witness ==
    /\ C6_DuplicateCase
    /\ ToCoordinator /\ IsRequest("sign_in")
    /\ inb.identity = "id_B"
    /\ components[InSender.name].identity = "id_A"
    /\ SentOne("id_B", ErrorContent("DuplicateName"))

-----------------------------------------------------------------------------
(* C7.  No exception escapes the loop: whatever the frames of a delivery   *)
(* of at least 4 frames are, the iteration ends with a message sent, the   *)
(* message dropped or running set to false, and never with a panic.        *)
C7_NoPanic ==
    Iterated
    => /\ pc # "panicked"
       /\ (Len(sent) = 1 \/ Len(sent) = 0 \/ ~running)

-----------------------------------------------------------------------------
(* C8.  Eviction after silence: while the Coordinator is running, the      *)
(* directory holds no entry whose name has been silent for the eviction    *)
(* threshold (30 s) or longer, also when the loop is blocked in the read.  *)
C8_EvictionAfterSilence ==
    (running /\ pc \in {"while", "read"})
    => \A n \in DOMAIN components :
          elapsed(components[n], now) < EvictionThreshold

-----------------------------------------------------------------------------
(* C9.  Ping threshold honoured: while the routing loop is running, no     *)
(* entry is idle for more than twice the ping threshold (10 s) without a   *)
(* pong request having been sent to it since it was last heard.            *)
C9_PingThresholdHonoured ==
    (running /\ pc \in {"while", "read"})
    => \A n \in DOMAIN components :
          elapsed(components[n], now) > 2 * PingThreshold => n \in pinged

-----------------------------------------------------------------------------
\* the case of C10: an authenticated shut_down request to this Coordinator
C10_ShutDownCase ==
    Iterated /\ WellFormed /\ SignedIn /\ ToCoordinator /\ IsRequest("shut_down")

(* C10.  shut_down.  As claimed: when a shut_down request of a signed-in   *)
(* sender, directed at this Coordinator, is processed, running becomes     *)
(* false and the Response with null result is sent in that iteration.      *)
C10_ShutDownReplySent ==
    C10_ShutDownCase
    => /\ ~running
       /\ SentOne(inb.identity,
                  Response_build(content_frame(inb.frames).id, null))

\* what C10, as amended below, says of one step
C10_ShutDownStep ==
    /\ C10_ShutDownCase' =>
          /\ pc' = "while"
          /\ ~running'
          /\ IF is_local(InSender')
             THEN SentOne(inb.identity,
                          Response_build(content_frame(inb.frames).id, null))'
             ELSE sent' = <<>>
    /\ pc' = "read" => running'
    /\ (pc = "while" /\ ~running) =>
          /\ pc' = "returned"
          /\ ~running'
          /\ components' = check_timeouts(components, now)
          /\ Len(sent') = Cardinality(to_ping(components, now))

(* C10, amended.  The iteration that processes such a request sets running *)
(* to false; it sends the Response with null result to the sender's        *)
(* identity when the sender frame names the own or the empty namespace,    *)
(* and sends nothing when it names a foreign one (the reply cannot be      *)
(* routed).  The loop reads only while running holds, and once running is  *)
(* false the one step left to routing() is the final timeout scan, after   *)
(* which it has returned.                                                  *)
C10_ShutDown == [][C10_ShutDownStep]_vars

C10_Witness ==
    /\ C10_ShutDownCase
    /\ is_local(InSender)
    /\ ~running
    /\ pc = "while"
    /\ SentOne(inb.identity, Response_build(7, null))

-----------------------------------------------------------------------------
\* the receiver frame names a Coordinator of the own or of the empty namespace
ToThisCoordinator ==
    /\ InReceiver.name = COORDINATOR
    /\ InReceiver.namespace \in {namespace, <<>>}

C11_StopCase ==
    /\ Iterated /\ NamesParse /\ SignedIn /\ ToThisCoordinator
    /\ IsRequest("shut_down")

C11_Step == (running /\ ~running') => C11_StopCase'

(* C11.  Only shut_down stops the loop: running goes from true to false    *)
(* only in an iteration that processes a Request with the method           *)
(* shut_down whose sender passed authorization and whose receiver is       *)
(* COORDINATOR in the own or the empty namespace.  A shut_down of a sender *)
(* that is not signed in, a shut_down for the COORDINATOR of a foreign     *)
(* namespace and every other method leave running as it was.               *)
C11_OnlyShutDownStops == [][C11_Step]_vars

C11_Witness ==
    /\ C11_StopCase
    /\ InReceiver.namespace = namespace
    /\ ~running
    /\ pre # NoComponents

-----------------------------------------------------------------------------
(* C12.  Identity uniqueness: in every reachable state no two entries of   *)
(* the directory, under different names, hold the same identity.           *)
C12_IdentityUnique ==
    \A n1, n2 \in DOMAIN components :
        components[n1].identity = components[n2].identity => n1 = n2

-----------------------------------------------------------------------------
\* the sender's short name is in the directory under another identity
NameTaken ==
    /\ InSender.name \in DOMAIN pre
    /\ pre[InSender.name].identity # inb.identity

\* the sender's short name is not in the directory and the message is not a
\* sign_in request to a Coordinator
Unknown ==
    /\ InSender.name \notin DOMAIN pre
    /\ ~(InReceiver.name = COORDINATOR /\ IsRequest("sign_in"))

C13_FailCase == Iterated /\ NamesParse /\ (NameTaken \/ Unknown)

(* C13.  Authorization failures leave the directory unchanged: an          *)
(* iteration whose sender is refused (the name is held by another          *)
(* identity, or the sender is not signed in and does not sign in) adds no  *)
(* entry, removes none, changes no identity and no timestamp, the          *)
(* rightful holder's included, and leaves running as it was.               *)
C13_FailureLeavesDirectory ==
    C13_FailCase => (components = pre /\ running)

C13_Witness ==
    /\ C13_FailCase
    /\ NameTaken
    /\ pc = "while"
    /\ pre[InSender.name].timestamp < now
    /\ components = pre
    /\ Len(sent) = 1

-----------------------------------------------------------------------------
\* the step is an iteration that accepts a sign_in request of the name n
C14_Created(n) ==
    /\ Iterated' /\ NamesParse'
    /\ InSender'.name = n
    /\ InReceiver'.name = COORDINATOR
    /\ IsRequest("sign_in")'
    /\ components'[n] = Component_build(inb'.identity, now)

\* the step is an iteration on a sign_out request of n's own sender, or the
\* timeout scan
C14_Removed(n) ==
    \/ /\ Iterated' /\ NamesParse'
       /\ InSender'.name = n
       /\ components[n].identity = inb'.identity
       /\ ToThisCoordinator'
       /\ IsRequest("sign_out")'
    \/ /\ pc = "while" /\ pc' = "returned"
       /\ elapsed(components[n], now) > EvictionThreshold

C14_Step ==
    /\ \A n \in (DOMAIN components') \ (DOMAIN components) : C14_Created(n)
    /\ \A n \in (DOMAIN components) \ (DOMAIN components') : C14_Removed(n)
    /\ \A n \in (DOMAIN components) \cap (DOMAIN components') :
          /\ components'[n].identity = components[n].identity
          /\ components'[n].timestamp # components[n].timestamp
               => /\ Iterated' /\ InSender'.name = n
                  /\ inb'.identity = components[n].identity
                  /\ components'[n].timestamp = now

(* C14.  Directory lifecycle: an entry is created only by an iteration     *)
(* that accepts a sign_in request, it is removed only by a sign_out        *)
(* request of its own sender or by the timeout scan, and in between its    *)
(* identity never changes.  A repeated sign_in of the same identity keeps  *)
(* the entry and refreshes its timestamp only; forwarding, pong,           *)
(* shut_down, unknown methods and the error paths leave the names and the  *)
(* identities of the directory as they were.                               *)
C14_Lifecycle == [][C14_Step]_vars

C14_Witness ==
    /\ Iterated /\ NamesParse /\ SignedIn /\ ToThisCoordinator
    /\ IsRequest("sign_out")
    /\ InSender.name \notin DOMAIN components
    /\ components # NoComponents
    /\ \A n \in DOMAIN components : components[n] = pre[n]

-----------------------------------------------------------------------------
\* the sender passed check_message: it is signed in, or it signs in
Authorized ==
    \/ SignedIn
    \/ /\ InSender.name \notin DOMAIN pre
       /\ InReceiver.name = COORDINATOR
       /\ IsRequest("sign_in")

(* C15.  last_seen refresh: after an iteration on a message that passed    *)
(* authorization, the entry of the sender's short name, if the directory   *)
(* still holds it, has a timestamp that is not earlier than the start of   *)
(* the iteration; a message of another identity never advances it.         *)
C15_LastSeenRefresh ==
    Iterated =>
       /\ (NamesParse /\ Authorized /\ InSender.name \in DOMAIN components)
             => components[InSender.name].timestamp >= now
       /\ \A n \in (DOMAIN pre) \cap (DOMAIN components) :
             components[n].timestamp # pre[n].timestamp
             => /\ NamesParse
                /\ InSender.name = n
                /\ inb.identity = pre[n].identity

C15_Witness ==
    /\ Iterated /\ NamesParse /\ SignedIn
    /\ ~ToThisCoordinator
    /\ pre[InSender.name].timestamp < now
    /\ components[InSender.name].timestamp = now
    /\ \E n \in DOMAIN components :
          n # InSender.name /\ components[n].timestamp < now

-----------------------------------------------------------------------------
C16_PongCase ==
    Iterated /\ WellFormed /\ SignedIn /\ ToThisCoordinator /\ IsRequest("pong")

\* one message was written, to the sender's identity: from the
\* Coordinator's full name, to the sender frame of the request, a Response
\* with the request's id and a null result
C16_Reply ==
    /\ Len(sent) = 1
    /\ sent[1].identity = inb.identity
    /\ sender_frame(sent[1].frames) = full_name
    /\ receiver_frame(sent[1].frames) = sender_frame(inb.frames)
    /\ Len(sent[1].frames) = 5
    /\ content_frame(sent[1].frames)
         = Response_build(content_frame(inb.frames).id, null)

\* the directory holds the names and the identities it held before
SameNamesAndIdentities ==
    /\ DOMAIN components = DOMAIN pre
    /\ \A n \in DOMAIN pre : components[n].identity = pre[n].identity

(* C16.  pong reply.  As claimed: when a signed-in component (sender frame *)
(* F, identity I) sends a pong Request with the id k to COORDINATOR in the *)
(* own or the empty namespace, exactly one message is sent to I, with the  *)
(* Coordinator's full name as sender frame, F as receiver frame and a      *)
(* Response with the id k and a null result as content; the names and the  *)
(* identities of the directory do not change.                              *)
C16_PongReplySent ==
    C16_PongCase => (C16_Reply /\ SameNamesAndIdentities)

(* C16, amended.  That message is sent when F names the own or the empty   *)
(* namespace; when F names a foreign namespace nothing is sent (the reply  *)
(* cannot be routed).  In both cases the names and the identities of the   *)
(* directory do not change.                                                *)
C16_PongReply ==
    C16_PongCase =>
       /\ pc = "while"
       /\ IF InSender.namespace \in {namespace, <<>>}
          THEN C16_Reply
          ELSE sent = <<>>
       /\ SameNamesAndIdentities

C16_Witness ==
    /\ C16_PongCase
    /\ sender_frame(inb.frames) = <<"N1", Dot, "com_A">>
    /\ C16_Reply
    /\ content_frame(sent[1].frames) = Response_build(7, null)
    /\ components # pre

-----------------------------------------------------------------------------
\* the positions of wire that hold the frames written for the read k
WrittenFor(k) == {i \in DOMAIN wire : wire[i].read = k}

(* C17.  Per-sender ordering: of two inbound messages, the one read first  *)
(* has every message produced for it (forward, reply or error) on the      *)
(* wire before any message produced for the one read later, so the order   *)
(* holds for any two messages of one sender; and every identity frame      *)
(* written is immediately followed by the frames of its own message.       *)
C17_Ordering ==
    /\ \A k1, k2 \in 1..reads :
          k1 < k2 => \A i \in WrittenFor(k1), j \in WrittenFor(k2) : i < j
    /\ \A k \in 1..reads : Cardinality(WrittenFor(k)) \in {0, 2}
    /\ Len(wire) % 2 = 0
    /\ \A i \in DOMAIN wire :
          i % 2 = 1 =>
             /\ wire[i].part = "identity"
             /\ wire[i + 1].part = "message"
             /\ wire[i + 1].identity = wire[i].identity
             /\ wire[i + 1].read = wire[i].read

\* three reads, each answered or forwarded
C17_Witness ==
    /\ reads = 3
    /\ Len(wire) = 6
    /\ wire[2].frames # wire[4].frames
    /\ \E i \in DOMAIN wire :
          wire[i].part = "message" /\ receiver_frame(wire[i].frames) = <<"com_B">>
             /\ sender_frame(wire[i].frames) = <<"com_A">>

-----------------------------------------------------------------------------
(* C18.  Write errors are not fatal: when a write of an outbound message   *)
(* (forward, reply, error or ping) fails, the Coordinator does not crash   *)
(* or stop; running and the directory are as the failure found them and    *)
(* the loop goes on to its next iteration.                                 *)
C18_WriteErrorsNotFatal ==
    io = "write_error" => pc \in {"while", "returned"}

-----------------------------------------------------------------------------
\* the last step was an iteration whose read failed in the transport
ReadFailed == pc # "read" /\ io = "read_error"

\* the last step was an iteration on a delivery of fewer than four frames
TooShort == inb # NoDelivery /\ Len(inb.frames) < 4

(* C19.  Read and parse failures abort only the iteration: when the read   *)
(* fails in the transport, or the message read has fewer than four         *)
(* frames, nothing is written, the directory and running are as they       *)
(* were, and the loop is back at its head with running true, so that the   *)
(* next step is the next read.                                             *)
C19_ReadFailureAbortsIteration ==
    (ReadFailed \/ TooShort) =>
       /\ pc = "while"
       /\ running
       /\ sent = <<>>
       /\ components = pre

C19_Witness ==
    /\ TooShort
    /\ Len(inb.frames) = 3
    /\ pc = "while"
    /\ components # NoComponents
    /\ now > 0

-----------------------------------------------------------------------------
\* an authorized message for this Coordinator that is no sign_in
C20_Case == Iterated /\ WellFormed /\ SignedIn /\ ToThisCoordinator

\* the content frame is missing or is not a Request
NoRequest ==
    \/ ~has_content_frame(inb.frames)
    \/ ~parses_as_Request(content_frame(inb.frames))

\* the content frame is a Request with a method the Coordinator does not know
UnknownMethod ==
    /\ ~NoRequest
    /\ content_frame(inb.frames).method
         \notin {"sign_in", "sign_out", "pong", "shut_down"}

\* one message was written, to the sender's identity and addressed to its
\* sender frame: an ErrorResponse with the code c
C20_ErrorReply(c) ==
    /\ Len(sent) = 1
    /\ sent[1].identity = inb.identity
    /\ receiver_frame(sent[1].frames) = sender_frame(inb.frames)
    /\ has_content_frame(sent[1].frames)
    /\ "error" \in DOMAIN content_frame(sent[1].frames)
    /\ content_frame(sent[1].frames).error.code = c

\* the directory is the one before the iteration but for the sender's
\* timestamp, and running holds
C20_NothingElseChanged ==
    /\ SameNamesAndIdentities
    /\ \A n \in DOMAIN pre :
          n # InSender.name => components[n].timestamp = pre[n].timestamp
    /\ running

(* C20.  Self-handler error classification.  As claimed: for an            *)
(* authorized message directed at this Coordinator, when the content       *)
(* frame is missing or is not a Request the reply is an ErrorResponse      *)
(* with the code -32700 (ParseError), and when it is a Request with a      *)
(* method the Coordinator does not know the reply is an ErrorResponse with *)
(* the code -32600 (InvalidRequest); in both cases the directory and       *)
(* running are unchanged apart from the sender's timestamp.                *)
C20_ErrorReplySent ==
    /\ (C20_Case /\ NoRequest)
         => (C20_ErrorReply(-32700) /\ C20_NothingElseChanged)
    /\ (C20_Case /\ UnknownMethod)
         => (C20_ErrorReply(-32600) /\ C20_NothingElseChanged)

(* C20, amended.  That reply is sent when the sender frame names the own   *)
(* or the empty namespace; when it names a foreign namespace nothing is    *)
(* sent (the reply cannot be routed).  In both cases the directory and     *)
(* running are unchanged apart from the sender's timestamp.                *)
C20_ErrorClassification ==
    (C20_Case /\ (NoRequest \/ UnknownMethod)) =>
       /\ pc = "while"
       /\ IF InSender.namespace \in {namespace, <<>>}
          THEN C20_ErrorReply(IF NoRequest THEN -32700 ELSE -32600)
          ELSE sent = <<>>
       /\ C20_NothingElseChanged

C20_Witness ==
    /\ C20_Case
    /\ UnknownMethod
    /\ C20_ErrorReply(-32600)
    /\ components[InSender.name].timestamp > pre[InSender.name].timestamp
    /\ \E n \in DOMAIN pre : n # InSender.name

-----------------------------------------------------------------------------
\* the last call was find_routing_information
C21_Called == call.fn = "find_routing_information"

(* C21.  Route resolution: for every receiver name and directory,          *)
(* find_routing_information returns the empty namespace and the identity   *)
(* of the entry when the receiver's namespace is empty or the              *)
(* Coordinator's own and the short name is in the directory,               *)
(* ReceiverUnknown when the namespace is empty or the own and the short    *)
(* name is absent, and NodeUnknown for every other namespace, whether the  *)
(* short name is in the directory or not; the directory is as it was.      *)
C21_RouteResolution ==
    C21_Called =>
       /\ components = call.comps
       /\ IF call.receiver.namespace \in {<<>>, namespace}
          THEN IF call.receiver.name \in DOMAIN call.comps
               THEN /\ ret.ok
                    /\ ret.namespace = <<>>
                    /\ ret.identity = call.comps[call.receiver.name].identity
               ELSE ~ret.ok /\ ret.error = "ReceiverUnknown"
          ELSE ~ret.ok /\ ret.error = "NodeUnknown"

\* a foreign namespace with a short name that the directory holds
C21_Witness ==
    /\ C21_Called
    /\ call.receiver.namespace = <<"NX">>
    /\ call.receiver.name \in DOMAIN call.comps
    /\ Cardinality(DOMAIN call.comps) = 2
    /\ ret.error = "NodeUnknown"

-----------------------------------------------------------------------------
\* the last call was Message::new on the frames of a built message
C22_Called == call.fn = "build"

(* C22.  Control-message round trip: for every receiver r, sender s,       *)
(* conversation id of 16 bytes or none, message id of 3 bytes or none,     *)
(* type byte t and content (none, one frame, several frames), Message::new *)
(* accepts the frames of Message::build and the message has the version    *)
(* frame [0], the receiver frame r, the sender frame s, a header of        *)
(* exactly 20 bytes that holds the conversation id when one was given,     *)
(* then the message id or three zero bytes, then t, and the content        *)
(* frames as its payload (no payload frame when the content is none).      *)
C22_RoundTrip ==
    C22_Called =>
       /\ ret.ok
       /\ ret.frames[1] = <<0>>
       /\ version(ret.frames) = Some(0)
       /\ receiver_frame(ret.frames) = call.receiver
       /\ sender_frame(ret.frames) = call.sender
       /\ Len(ret.frames[4]) = 20
       /\ header(ret.frames).ok
       /\ call.conversation_id # None
             => header(ret.frames).conversation_id = call.conversation_id[1]
       /\ header(ret.frames).message_id
             = (IF call.message_id = None THEN <<0, 0, 0>> ELSE call.message_id[1])
       /\ header(ret.frames).message_type = call.message_type
       /\ payload(ret.frames)
             = (IF call.content.type = "Null" THEN <<>>
                ELSE IF call.content.type = "Frame" THEN <<call.content.frame>>
                ELSE call.content.frames)
       /\ has_content_frame(ret.frames) = (payload(ret.frames) # <<>>)

C22_Witness ==
    /\ C22_Called
    /\ call.content = ContentNull
    /\ call.conversation_id = None
    /\ call.message_id # None
    /\ call.message_type = 255
    /\ Len(ret.frames) = 4

-----------------------------------------------------------------------------
\* the last call was create_error, which builds every ErrorResponse the
\* Coordinator sends
C23_Called == call.fn = "create_error"

\* the table of the error kinds: code and message
C23_Table(error) ==
    CASE error = "ParseError"      -> [code |-> -32700, message |-> "Server error."]
      [] error = "InvalidRequest"  -> [code |-> -32600, message |-> "Server error."]
      [] error = "MethodNotFound"  -> [code |-> -32601, message |-> "Server error."]
      [] error = "InvalidParams"   -> [code |-> -32602, message |-> "Server error."]
      [] error = "InternalError"   -> [code |-> -32603, message |-> "Server error."]
      [] error = "ServerError"     -> [code |-> -32000, message |-> "Server error."]
      [] error = "NotSignedIn"
           -> [code |-> -32090, message |-> "Component not signed in yet!"]
      [] error = "DuplicateName"
           -> [code |-> -32091, message |-> "The name is already taken."]
      [] error = "NodeUnknown"
           -> [code |-> -32092, message |-> "Node is unknown."]
      [] error = "ReceiverUnknown"
           -> [code |-> -32093, message |-> "Receiver is not in addresses list."]

(* C23.  Error codes on the wire: every ErrorResponse the Coordinator      *)
(* builds carries the code and the message of its error kind exactly as    *)
(* the table has them, and the code is a value of a signed 16-bit integer, *)
(* so that nothing wraps around.                                           *)
C23_ErrorCodes ==
    C23_Called =>
       /\ has_content_frame(ret)
       /\ Len(ret) = 5
       /\ DOMAIN content_frame(ret) = {"jsonrpc", "id", "error"}
       /\ content_frame(ret).error = C23_Table(call.error)
       /\ content_frame(ret).error.code \in -32768..32767

C23_Witness ==
    /\ C23_Called
    /\ call.error = "ParseError"
    /\ content_frame(ret).error.code = -32700
    /\ content_frame(ret).error.message = "Server error."

-----------------------------------------------------------------------------
\* the last call was FullName::from_vec / from_slice
C24_Called == call.fn = "from_vec"

\* the positions of the separator in the input
C24_Dots == {i \in 1..Len(call.input) : call.input[i] = Dot}

(* C24.  FullName parsing: for every byte string, from_vec and from_slice  *)
(* return the empty namespace and the whole input as name when the input   *)
(* holds no '.', the part before and the part after it when it holds       *)
(* exactly one '.', and an error when it holds two or more.                *)
C24_FullNameParsing ==
    C24_Called =>
       /\ ret.slice = ret.vec
       /\ Cardinality(C24_Dots) = 0 =>
             /\ ret.vec.ok
             /\ ret.vec.namespace = <<>>
             /\ ret.vec.name = call.input
       /\ Cardinality(C24_Dots) = 1 =>
             LET i == CHOOSE j \in C24_Dots : TRUE
             IN  /\ ret.vec.ok
                 /\ ret.vec.namespace = SubSeq(call.input, 1, i - 1)
                 /\ ret.vec.name = SubSeq(call.input, i + 1, Len(call.input))
       /\ Cardinality(C24_Dots) >= 2 => ~ret.vec.ok

\* three separators
C24_Witness ==
    /\ C24_Called
    /\ Cardinality(C24_Dots) = 3
    /\ ~ret.vec.ok

-----------------------------------------------------------------------------
\* the last step was a run of check_timeouts on the directory pre
Scanned == pc = "returned"

(* C25.  Eviction boundary of the timeout scan: one run of check_timeouts  *)
(* removes every entry that has been idle for the eviction threshold       *)
(* (30 s) or longer, an entry idle for exactly 30 s included, and removes  *)
(* no entry that has been idle for less than 30 s.                         *)
C25_EvictionBoundary ==
    Scanned =>
       \A n \in DOMAIN pre :
          (n \notin DOMAIN components) <=> (elapsed(pre[n], now) >= 30)

-----------------------------------------------------------------------------
\* the messages of the scan that are addressed to the name n
PingsTo(n) == {i \in DOMAIN sent : receiver_frame(sent[i].frames) = n}

(* C26.  Ping step of the timeout scan: one run of check_timeouts sends    *)
(* exactly one message to each entry that has been idle for the ping       *)
(* threshold (10 s) or longer: to the entry's identity, with the entry's   *)
(* short name as receiver frame, the Coordinator's full name as sender     *)
(* frame and a Request with the method pong as content.  It sends nothing  *)
(* to an entry idle for less than 10 s, and it neither removes nor changes *)
(* an entry idle for at least 10 s and less than 30 s.                     *)
C26_PingStep ==
    Scanned =>
       /\ \A n \in DOMAIN pre :
             Cardinality(PingsTo(n)) = (IF elapsed(pre[n], now) >= 10 THEN 1 ELSE 0)
       /\ \A i \in DOMAIN sent :
             /\ receiver_frame(sent[i].frames) \in DOMAIN pre
             /\ sent[i].identity = pre[receiver_frame(sent[i].frames)].identity
             /\ sender_frame(sent[i].frames) = full_name
             /\ Len(sent[i].frames) = 5
             /\ parses_as_Request(content_frame(sent[i].frames))
             /\ content_frame(sent[i].frames).method = "pong"
       /\ \A n \in DOMAIN pre :
             (elapsed(pre[n], now) >= 10 /\ elapsed(pre[n], now) < 30)
             => (n \in DOMAIN components /\ components[n] = pre[n])

\* one entry idle for exactly 10 s, pinged and kept; one heard just now
C26_Witness ==
    /\ Scanned
    /\ Len(sent) = 1
    /\ \E n \in DOMAIN pre :
          /\ elapsed(pre[n], now) = 10
          /\ PingsTo(n) = {1}
          /\ components[n] = pre[n]
    /\ \E n \in DOMAIN pre : elapsed(pre[n], now) = 0

-----------------------------------------------------------------------------
\* the name route_message resolves: the receiver of the inbound message,
\* or of the reply when the Coordinator handled the message itself
C27_Target == IF ToThisCoordinator THEN InSender ELSE InReceiver

\* the name is of a foreign namespace or not in the directory
Unroutable(name) ==
    \/ name.namespace \notin {<<>>, namespace}
    \/ name.name \notin DOMAIN components

\* an authorized message whose receiver cannot be resolved; the error
\* message is addressed to the receiver frame of the message that could
\* not be routed, so that its destination is that name again
C27_DropCase ==
    /\ Iterated /\ WellFormed /\ Authorized
    /\ Unroutable(C27_Target)

(* C27.  Secondary resolution failure drops.  As claimed: when resolving   *)
(* the receiver fails and resolving the destination of the synthesized     *)
(* error message fails as well, no frame is written for that inbound       *)
(* message and the names and identities of the directory and the running   *)
(* flag are unchanged.                                                     *)
C27_DropChangesNothing ==
    C27_DropCase => (sent = <<>> /\ SameNamesAndIdentities /\ running)

(* C27, amended.  In that case no frame is written for the inbound         *)
(* message, and the directory and running are as authorization and the     *)
(* self-handler left them: a sender that signed in with this message has   *)
(* its entry, a sender whose sign_out the Coordinator handled has none,    *)
(* running is false exactly if the Coordinator handled a shut_down, and    *)
(* every other name and every identity is unchanged.                       *)
C27_SecondaryFailureDrops ==
    C27_DropCase =>
       /\ pc = "while"
       /\ sent = <<>>
       /\ running = ~(ToThisCoordinator /\ IsRequest("shut_down"))
       /\ DOMAIN components
            = IF ToThisCoordinator /\ IsRequest("sign_out")
              THEN (DOMAIN pre) \ {InSender.name}
              ELSE (DOMAIN pre) \cup {InSender.name}
       /\ \A n \in DOMAIN components :
             components[n].identity
               = (IF n \in DOMAIN pre THEN pre[n].identity ELSE inb.identity)

\* a message of a signed-in sender for a name the directory does not hold
C27_Witness ==
    /\ C27_DropCase
    /\ SignedIn
    /\ ~ToThisCoordinator
    /\ InReceiver.namespace = <<>>
    /\ InReceiver.name = <<"com_B">>
    /\ sent = <<>>
    /\ SameNamesAndIdentities

-----------------------------------------------------------------------------
\* the iteration wrote a message that is not the inbound message forwarded
Synthesized ==
    /\ Iterated
    /\ Len(sent) >= 1
    /\ sent[1].frames # inb.frames

(* C28.  Reply correlation: every message the Coordinator makes in answer  *)
(* to an inbound message (authorization error, resolution error, Response  *)
(* or ErrorResponse of the self-handler) has in the first 16 bytes of its  *)
(* header the conversation id of that inbound message and the              *)
(* Coordinator's full name as its sender frame; only the pings of the      *)
(* timeout scan carry a conversation id that was generated for them.       *)
C28_ReplyCorrelation ==
    /\ Synthesized =>
          /\ Len(sent) = 1
          /\ header(inb.frames).ok
          /\ header(sent[1].frames).conversation_id
               = SubSeq(inb.frames[4], 1, 16)
          /\ sender_frame(sent[1].frames) = <<"N1", Dot, "COORDINATOR">>
    /\ Scanned =>
          \A i \in DOMAIN sent :
             /\ header(sent[i].frames).conversation_id
                  \in { create_conversation_id(now, 0),
                        create_conversation_id(now, 1) }
             /\ sender_frame(sent[i].frames) = <<"N1", Dot, "COORDINATOR">>

\* an authorization error for a header that is one byte longer
C28_Witness ==
    /\ Synthesized
    /\ NamesParse /\ NameTaken
    /\ Len(inb.frames[4]) = 21
    /\ Len(sent[1].frames[4]) = 20
    /\ header(sent[1].frames).conversation_id = [i \in 1..16 |-> 2]

-----------------------------------------------------------------------------
(* C29.  Replies reach only the requester: over every sequence of inbound  *)
(* messages, a message that the Coordinator made in answer to an inbound   *)
(* message (a Response or an ErrorResponse) and wrote to the transport was *)
(* written to the identity that inbound message arrived from, never to     *)
(* the identity of another component, and an inbound message causes at     *)
(* most one outbound message.                                              *)
C29_RepliesReachRequester ==
    /\ (inb # NoDelivery /\ pc \in {"while", "panicked"}) => Len(sent) <= 1
    /\ Synthesized =>
          /\ sent[1].identity = inb.identity
          /\ DOMAIN content_frame(sent[1].frames) \in
                { {"jsonrpc", "id", "result"}, {"jsonrpc", "id", "error"} }

\* the name is held by another identity: the error goes to the intruder
C29_Witness ==
    /\ Synthesized
    /\ NamesParse /\ NameTaken
    /\ sent[1].identity = inb.identity
    /\ sent[1].identity # pre[InSender.name].identity
    /\ content_frame(sent[1].frames).error.code = -32091

-----------------------------------------------------------------------------
\* a sign_in request of an unknown short name to a Coordinator of any
\* namespace
C30_Case ==
    /\ Iterated /\ NamesParse
    /\ InSender.name \notin DOMAIN pre
    /\ InReceiver.name = COORDINATOR
    /\ IsRequest("sign_in")

\* the receiver frame or the sender frame names a foreign namespace
C30_Foreign ==
    \/ InReceiver.namespace \notin {<<>>, namespace}
    \/ InSender.namespace \notin {<<>>, namespace}

(* C30.  Sign-in ignores namespaces: check_message creates the entry for   *)
(* a sign_in request of an unknown short name whenever the receiver's      *)
(* short name is COORDINATOR, whatever the namespace of the receiver and   *)
(* of the sender frame; when the receiver is the COORDINATOR of a foreign  *)
(* namespace, or the sender frame names a foreign namespace, the entry     *)
(* short name -> identity is created although no Response and no           *)
(* ErrorResponse is sent to the sender.                                    *)
C30_SignInIgnoresNamespaces ==
    C30_Case =>
       /\ DOMAIN components = (DOMAIN pre) \cup {InSender.name}
       /\ components[InSender.name]
            = [identity |-> inb.identity, timestamp |-> now]
       /\ \A n \in DOMAIN pre : components[n] = pre[n]
       /\ C30_Foreign => sent = <<>>

\* a sign_in for the Coordinator of the namespace NX
C30_Witness ==
    /\ C30_Case
    /\ WellFormed
    /\ InReceiver.namespace = <<"NX">>
    /\ pc = "while"
    /\ InSender.name \in DOMAIN components
    /\ pre # NoComponents
    /\ sent = <<>>

-----------------------------------------------------------------------------
\* the first content frame of the inbound message is a Request
C31_Request ==
    /\ has_content_frame(inb.frames)
    /\ parses_as_Request(content_frame(inb.frames))

\* a Request of a signed-in component of this namespace to this Coordinator
\* that leaves the component in the directory
C31_Case ==
    /\ Iterated /\ WellFormed /\ SignedIn /\ ToThisCoordinator
    /\ InSender.namespace \in {<<>>, namespace}
    /\ C31_Request
    /\ content_frame(inb.frames).method # "sign_out"

(* C31.  Error replies lose the request id: every ErrorResponse the        *)
(* Coordinator makes has the id 0, whatever the id of the offending        *)
(* request was, and a well-formed Request with an unknown method and an id *)
(* other than 0 is answered with such an ErrorResponse; every Response of  *)
(* the self-handler has the id of the Request it answers, and the methods  *)
(* sign_in, pong and shut_down are answered with such a Response.          *)
C31_ErrorRepliesLoseId ==
    /\ Synthesized =>
          LET c == content_frame(sent[1].frames)
          IN  /\ "error" \in DOMAIN c => c.id = 0
              /\ "result" \in DOMAIN c =>
                    /\ C31_Request
                    /\ c.id = content_frame(inb.frames).id
    /\ C31_Case =>
          /\ Len(sent) = 1
          /\ LET c == content_frame(sent[1].frames)
                 r == content_frame(inb.frames)
             IN  IF r.method \in {"sign_in", "pong", "shut_down"}
                 THEN DOMAIN c = {"jsonrpc", "id", "result"} /\ c.id = r.id
                 ELSE DOMAIN c = {"jsonrpc", "id", "error"} /\ c.id = 0

\* the unknown method steal in a Request with the id 7
C31_Witness ==
    /\ C31_Case
    /\ content_frame(inb.frames).method = "steal"
    /\ content_frame(inb.frames).id = 7
    /\ Len(sent) = 1
    /\ sent[1].identity = inb.identity
    /\ content_frame(sent[1].frames).id = 0
    /\ content_frame(sent[1].frames).error.code = -32600

=============================================================================
